---- MODULE Spec2Model ----
(***************************************************************************)
(* Model of the conda-protect / envlock plugins.                           *)
(*                                                                         *)
(* Python strings are sequences of one-character strings, so that          *)
(* str.startswith, os.path.basename, pathlib.Path and sorted() are         *)
(* computed character by character as the interpreter computes them.       *)
(* A pathlib.Path value is represented by its normalised string form.      *)
(***************************************************************************)
EXTENDS Integers, Sequences, FiniteSets, TLC

VARIABLES
    variant,      \* which plugin is installed: "protect" or "envlock"
    root_prefix,  \* context.root_prefix
    envs_dirs,    \* context.envs_dirs
    prefixes,     \* result of list_all_known_prefixes(): sorted, no duplicates
    markers,      \* Path values p such that p/<marker file> exists on disk
    inv,          \* the invocation that has run and not yet exited
    hist,         \* the last toggles run back to back on one location (SpecToggles)
    proc          \* the concurrent toggle invocations (specification SpecConc)

vars == <<variant, root_prefix, envs_dirs, prefixes, markers, inv, hist, proc>>

config == <<variant, root_prefix, envs_dirs, prefixes>>

----------------------------------------------------------------------------
(* Bounds of the model *)

\* at most this many known environments besides the root environment
MaxKnown == 2

\* number of toggle invocations that may run at the same time
NumProcs == 2

----------------------------------------------------------------------------
(* Python values *)

\* Python's None
None == <<"<None>">>

\* bool(v) of a str or None
Truthy(v) == v # None /\ v # <<>>

\* code points of the characters used
Ord(c) ==
    CASE c = "." -> 46
      [] c = "/" -> 47
      [] c = "a" -> 97
      [] c = "b" -> 98
      [] c = "d" -> 100
      [] c = "e" -> 101
      [] c = "q" -> 113
      [] c = "r" -> 114
      [] c = "s" -> 115
      [] c = "u" -> 117

\* a < b for str: lexicographic by code point
RECURSIVE StrLess(_, _)
StrLess(a, b) ==
    IF b = <<>> THEN FALSE
    ELSE IF a = <<>> THEN TRUE
    ELSE IF Ord(Head(a)) # Ord(Head(b)) THEN Ord(Head(a)) < Ord(Head(b))
    ELSE StrLess(Tail(a), Tail(b))

\* str.startswith
StartsWith(s, d) == Len(d) <= Len(s) /\ SubSeq(s, 1, Len(d)) = d

\* index of the last "/" of s, 0 when there is none (str.rfind + 1)
LastSlash(s) ==
    LET I == {i \in 1..Len(s) : s[i] = "/"}
    IN  IF I = {} THEN 0 ELSE CHOOSE i \in I : \A j \in I : j <= i

\* os.path.basename
Basename(s) == SubSeq(s, LastSlash(s) + 1, Len(s))

\* s.split("/")
RECURSIVE SplitSlash(_)
SplitSlash(s) ==
    LET I == {i \in 1..Len(s) : s[i] = "/"}
    IN  IF I = {} THEN <<s>>
        ELSE LET i == CHOOSE k \in I : \A j \in I : k <= j
             IN  <<SubSeq(s, 1, i - 1)>> \o SplitSlash(SubSeq(s, i + 1, Len(s)))

\* "/".join(parts)
RECURSIVE JoinSlash(_)
JoinSlash(parts) ==
    IF parts = <<>> THEN <<>>
    ELSE IF Len(parts) = 1 THEN parts[1]
    ELSE parts[1] \o <<"/">> \o JoinSlash(Tail(parts))

\* number of leading "/" of s
RECURSIVE LeadingSlashes(_)
LeadingSlashes(s) ==
    IF s # <<>> /\ Head(s) = "/" THEN 1 + LeadingSlashes(Tail(s)) ELSE 0

\* str(pathlib.Path(s)) on POSIX: repeated and trailing slashes and "."
\* segments are dropped; exactly two leading slashes are kept
PathOf(s) ==
    LET n     == LeadingSlashes(s)
        root  == IF n = 0 THEN <<>> ELSE IF n = 2 THEN <<"/", "/">> ELSE <<"/">>
        parts == SelectSeq(SplitSlash(s), LAMBDA x : x # <<>> /\ x # <<".">>)
        out   == root \o JoinSlash(parts)
    IN  IF out = <<>> THEN <<".">> ELSE out

\* conda.base.constants.ROOT_ENV_NAME
ROOT_ENV_NAME == <<"b", "a", "s", "e">>

----------------------------------------------------------------------------
(* dict, with insertion order *)

DictKeys(d) == {d[i].k : i \in 1..Len(d)}

DictValues(d) == {d[i].v : i \in 1..Len(d)}

\* d[key]
DictGet(d, key) == d[CHOOSE i \in 1..Len(d) : d[i].k = key].v

\* a dict assignment that keeps the value of an existing key
DictSet_KeepFirst(d, key, value) ==
    IF key \in DictKeys(d) THEN d ELSE Append(d, [k |-> key, v |-> value])

\* d[key] = value: an existing key keeps its position
DictSet(d, key, value) ==
    IF key \in DictKeys(d)
    THEN [i \in 1..Len(d) |-> IF d[i].k = key THEN [k |-> key, v |-> value] ELSE d[i]]
    ELSE Append(d, [k |-> key, v |-> value])

----------------------------------------------------------------------------
(* Registry adapter *)

\* the inner loop of the comprehension: for env_dir in context.envs_dirs
RECURSIVE MapOverDirs(_, _, _)
MapOverDirs(mapping, prefix, dirs) ==
    IF dirs = <<>> THEN mapping
    ELSE MapOverDirs(
            IF StartsWith(prefix, Head(dirs))
            THEN DictSet(mapping, Basename(prefix), prefix)
            ELSE mapping,
            prefix, Tail(dirs))

\* the outer loop of the comprehension: for prefix in prefixes
RECURSIVE MapOverPrefixes(_, _, _)
MapOverPrefixes(mapping, pfxs, dirs) ==
    IF pfxs = <<>> THEN mapping
    ELSE MapOverPrefixes(MapOverDirs(mapping, Head(pfxs), dirs), Tail(pfxs), dirs)

get_name_to_prefix_map(pfxs, dirs, root) ==
    DictSet(MapOverPrefixes(<<>>, pfxs, dirs), ROOT_ENV_NAME, root)

\* insertion of e into a list sorted by name, after the entries that are not greater
RECURSIVE InsertByName(_, _)
InsertByName(sortedSeq, e) ==
    IF sortedSeq = <<>> THEN <<e>>
    ELSE IF StrLess(e.name, Head(sortedSeq).name) THEN <<e>> \o sortedSeq
    ELSE <<Head(sortedSeq)>> \o InsertByName(Tail(sortedSeq), e)

\* sorted(env_info, key=lambda env: env.name): a stable sort
RECURSIVE SortedByName(_)
SortedByName(s) ==
    IF s = <<>> THEN <<>>
    ELSE InsertByName(SortedByName(SubSeq(s, 1, Len(s) - 1)), s[Len(s)])

\* path.joinpath(<marker file>).exists()
Exists(files, path) == path \in files

EnvironmentInfo(name, path, guarded) ==
    [name |-> name, path |-> path, guarded |-> guarded]

\* first loop: the known prefixes the name map does not map to
UnnamedEntries(pfxs, name_to_prefix, files) ==
    LET rest == SelectSeq(pfxs, LAMBDA p : p \notin DictValues(name_to_prefix))
    IN  [i \in 1..Len(rest) |->
            EnvironmentInfo(<<>>, PathOf(rest[i]), Exists(files, PathOf(rest[i])))]

\* second loop: the items of the name map
NamedEntries(name_to_prefix, files) ==
    [i \in 1..Len(name_to_prefix) |->
        EnvironmentInfo(name_to_prefix[i].k, PathOf(name_to_prefix[i].v),
                        Exists(files, PathOf(name_to_prefix[i].v)))]

get_environment_info(pfxs, dirs, root, files) ==
    LET name_to_prefix == get_name_to_prefix_map(pfxs, dirs, root)
    IN  SortedByName(UnnamedEntries(pfxs, name_to_prefix, files)
                        \o NamedEntries(name_to_prefix, files))

----------------------------------------------------------------------------
(* Resolver and state store *)

InPrefixes(value, pfxs) == \E i \in 1..Len(pfxs) : pfxs[i] = value

\* validate_environment without the check that raises "Environment not found"
validate_environment_NoCheck(value, pfxs, dirs, root, files) ==
    LET name_to_prefix == get_name_to_prefix_map(pfxs, dirs, root)
    IN  IF ~InPrefixes(value, pfxs) /\ value # None /\ value \in DictKeys(name_to_prefix)
        THEN [kind |-> "env",
              env  |-> EnvironmentInfo(value,
                          PathOf(DictGet(name_to_prefix, value)),
                          Exists(files, PathOf(DictGet(name_to_prefix, value))))]
        ELSE IF value = None THEN [kind |-> "None"]
        ELSE [kind |-> "env",
              env  |-> EnvironmentInfo(value, PathOf(value), Exists(files, PathOf(value)))]

\* the click callback of the "environment" argument
validate_environment(value, pfxs, dirs, root, files) ==
    LET name_to_prefix == get_name_to_prefix_map(pfxs, dirs, root)
    IN  IF ~InPrefixes(value, pfxs)
        THEN IF value # None
             THEN IF value \notin DictKeys(name_to_prefix)
                  THEN [kind |-> "NotFound"]
                  ELSE [kind |-> "env",
                        env  |-> EnvironmentInfo(value,
                                    PathOf(DictGet(name_to_prefix, value)),
                                    Exists(files, PathOf(DictGet(name_to_prefix, value))))]
             ELSE [kind |-> "None"]
        ELSE [kind |-> "env",
              env  |-> EnvironmentInfo(value, PathOf(value), Exists(files, PathOf(value)))]

\* toggle_environment_guard that reports the new state without removing the marker
toggle_environment_guard_NoUnlink(env, files) ==
    IF env.guarded
    THEN [kind  |-> "ok", files |-> files,
          env   |-> EnvironmentInfo(env.name, env.path, ~env.guarded)]
    ELSE [kind  |-> "ok", files |-> files \cup {env.path},
          env   |-> EnvironmentInfo(env.name, env.path, ~env.guarded)]

\* toggle_environment_guard whose unlink() tolerates a missing marker
toggle_environment_guard_MissingOk(env, files) ==
    IF env.guarded
    THEN [kind  |-> "ok", files |-> files \ {env.path},
          env   |-> EnvironmentInfo(env.name, env.path, ~env.guarded)]
    ELSE [kind  |-> "ok", files |-> files \cup {env.path},
          env   |-> EnvironmentInfo(env.name, env.path, ~env.guarded)]

\* toggle_environment_guard that creates the marker whatever state was read
toggle_environment_guard_AlwaysTouch(env, files) ==
    [kind  |-> "ok", files |-> files \cup {env.path},
     env   |-> EnvironmentInfo(env.name, env.path, TRUE)]

\* toggle_environment_guard / toggle_environment_lock on an EnvironmentInfo:
\* unlink() raises FileNotFoundError (an OSError) when the marker is gone,
\* touch() succeeds whether or not the marker is there
toggle_environment_guard(env, files) ==
    IF env.guarded
    THEN IF Exists(files, env.path)
         THEN [kind  |-> "ok", files |-> files \ {env.path},
               env   |-> EnvironmentInfo(env.name, env.path, ~env.guarded)]
         ELSE [kind  |-> "IOFailure", files |-> files]
    ELSE [kind  |-> "ok", files |-> files \cup {env.path},
          env   |-> EnvironmentInfo(env.name, env.path, ~env.guarded)]

----------------------------------------------------------------------------
(* Command surface *)

\* one row of the table: name or placeholder, location, status
TableRow(row) ==
    [name   |-> IF row.name # <<>> THEN row.name ELSE <<"-">>,
     prefix |-> row.path,
     status |-> IF row.guarded THEN "protected" ELSE ""]

\* display_environment_info_table: the rows added to the table
display_environment_info_table(environments) ==
    [i \in 1..Len(environments) |-> TableRow(environments[i])]

\* list mode of the subcommand: filters, then the table
list_environments(protected, named, pfxs, dirs, root, files) ==
    LET all  == get_environment_info(pfxs, dirs, root, files)
        f1   == IF protected THEN SelectSeq(all, LAMBDA e : e.guarded) ELSE all
        f2   == IF named THEN SelectSeq(f1, LAMBDA e : e.name # <<>>) ELSE f1
    IN  display_environment_info_table(f2)

\* toggle mode of the subcommand on the value the callback returned:
\* toggle_environment_guard(None) reads None.guarded and raises AttributeError
toggle_command(validated, files) ==
    IF validated.kind = "NotFound" THEN [kind |-> "NotFound", files |-> files]
    ELSE IF validated.kind = "None" THEN [kind |-> "AttributeError", files |-> files]
    ELSE toggle_environment_guard(validated.env, files)

----------------------------------------------------------------------------
(* Guard hook *)

\* the host commands each plugin registers its hook for (run_for)
RunFor(v) ==
    IF v = "protect"
    THEN {"install", "remove", "update", "env_update", "env_remove"}
    ELSE {"install", "remove", "update", "info", "env_update", "env_remove"}

\* _get_active_environment with the location argument looked at before the name
_get_active_environment_PrefixFirst(args) ==
    IF ~args.cmd_line THEN [attr |-> "none", value |-> None]
    ELSE IF Truthy(args.prefix) THEN [attr |-> "path", value |-> PathOf(args.prefix)]
    ELSE IF Truthy(args.name) THEN [attr |-> "name", value |-> args.name]
    ELSE [attr |-> "none", value |-> None]

\* _get_active_environment of the protect plugin
_get_active_environment(args) ==
    IF ~args.cmd_line THEN [attr |-> "none", value |-> None]
    ELSE IF Truthy(args.name) THEN [attr |-> "name", value |-> args.name]
    ELSE IF Truthy(args.prefix) THEN [attr |-> "path", value |-> PathOf(args.prefix)]
    ELSE [attr |-> "none", value |-> None]

\* the lookup of the protect plugin: command line, else context.target_prefix
LookupProtect(args, active) ==
    LET got == _get_active_environment(args)
    IN  IF got.attr = "none" \/ got.value = None
        THEN [attr |-> "path", value |-> PathOf(active)]
        ELSE got

\* the lookup of the envlock plugin: args.name, args.prefix, else
\* context.active_prefix, which is None when no environment is activated
LookupEnvlock(args, active) ==
    IF Truthy(args.name) THEN [attr |-> "name", value |-> args.name]
    ELSE IF Truthy(args.prefix) THEN [attr |-> "path", value |-> PathOf(args.prefix)]
    ELSE IF active = None THEN [attr |-> "TypeError", value |-> None]
    ELSE [attr |-> "path", value |-> PathOf(active)]

\* getattr(env, lookup_attr)
GetAttr(env, attr) == IF attr = "name" THEN env.name ELSE env.path

\* GuardedEnvs with every lookup made on the path attribute
GuardedEnvs_PathOnly(known_envs, lookup) ==
    SelectSeq(known_envs, LAMBDA env : env.path = lookup.value /\ env.guarded)

\* the list "guarded_envs" / "locked_envs"
GuardedEnvs(known_envs, lookup) ==
    SelectSeq(known_envs, LAMBDA env : GetAttr(env, lookup.attr) = lookup.value /\ env.guarded)

\* the rest of either hook once the lookup is chosen
RaiseIfGuarded(known_envs, lookup) ==
    LET guarded_envs == GuardedEnvs(known_envs, lookup)
    IN  IF lookup.attr = "TypeError" THEN [kind |-> "TypeError", n |-> 0, shown |-> <<>>]
        ELSE IF guarded_envs # <<>>
        THEN [kind  |-> "Blocked", n |-> Len(guarded_envs),
              shown |-> IF guarded_envs[1].name # <<>> THEN guarded_envs[1].name
                        ELSE guarded_envs[1].path]
        ELSE [kind |-> "Pass", n |-> 0, shown |-> <<>>]

conda_guard_pre_commands_action(in, pfxs, dirs, root, files) ==
    IF in.dry_run THEN [kind |-> "Pass", n |-> 0, shown |-> <<>>]
    ELSE RaiseIfGuarded(get_environment_info(pfxs, dirs, root, files),
                        LookupProtect(in.args, in.active))

custom_plugin_pre_commands_action(in, pfxs, dirs, root, files) ==
    RaiseIfGuarded(get_environment_info(pfxs, dirs, root, files),
                   LookupEnvlock(in.args, in.active))

\* the hook of the installed plugin
PreCommand(v, in, pfxs, dirs, root, files) ==
    IF v = "protect" THEN conda_guard_pre_commands_action(in, pfxs, dirs, root, files)
    ELSE custom_plugin_pre_commands_action(in, pfxs, dirs, root, files)

----------------------------------------------------------------------------
(* The host's configuration and the inputs of the invocations *)

P_r      == <<"/", "r">>
P_e_r    == <<"/", "e", "/", "r">>
P_e      == <<"/", "e">>
P_d      == <<"/", "d">>
P_e_a    == <<"/", "e", "/", "a">>
P_e_a_sl == <<"/", "e", "/", "a", "/">>
P_d_a    == <<"/", "d", "/", "a">>
P_ee_b   == <<"/", "e", "e", "/", "b">>
P_u      == <<"/", "u">>
N_a      == <<"a">>
N_b      == <<"b">>
N_r      == <<"r">>
N_q      == <<"q">>

\* candidate root prefixes: outside, and inside, a search directory
Roots == {P_r, P_e_r}

\* candidate values of context.envs_dirs
EnvsDirsChoices == {<<P_e>>, <<P_e, P_d>>}

\* candidate environments besides the root environment
KnownUniverse == {P_e_a, P_d_a, P_ee_b}

\* a location that is never a known environment
Unknown == P_u

\* sorted(S) for a set of str
RECURSIVE SortedStrs(_)
SortedStrs(S) ==
    IF S = {} THEN <<>>
    ELSE LET m == CHOOSE x \in S : \A y \in S : ~StrLess(y, x)
         IN  <<m>> \o SortedStrs(S \ {m})

\* list_all_known_prefixes(): the known environments and the root prefix, sorted
list_all_known_prefixes(known, root) == SortedStrs(known \cup {root})

\* the argument of the subcommand: absent, empty, locations, names
Tokens ==
    {None, <<>>, P_r, P_e_r, P_e_a, P_e_a_sl, P_d_a, P_ee_b, P_u,
     N_a, N_b, N_r, N_q, ROOT_ENV_NAME}

\* the parsed command line of a host command, as the hook sees it
HookArgs ==
    {[cmd_line |-> FALSE, name |-> None, prefix |-> None]}
    \cup {[cmd_line |-> TRUE, name |-> n, prefix |-> None] :
            n \in {None, <<>>, N_a, N_b, N_q, ROOT_ENV_NAME}}
    \cup {[cmd_line |-> TRUE, name |-> n, prefix |-> p] :
            n \in {None, <<>>, N_a}, p \in {P_e_a_sl, P_d_a, P_ee_b, P_u, P_e_r}}

\* the active environment (context.active_prefix / context.target_prefix)
Actives == {None, P_r, P_e_r, P_e_a, P_u}

\* host commands: the gated ones and one that no plugin gates
HostCommands == RunFor("envlock") \cup {"create"}

\* what the host hands the hook: every command line and active environment for
\* "install", and every host command for three command lines
HookInputs ==
    {[command |-> "install", dry_run |-> d, args |-> a, active |-> act] :
        d \in BOOLEAN, a \in HookArgs, act \in Actives}
    \cup {[command |-> c, dry_run |-> d, args |-> a, active |-> P_r] :
            c \in HostCommands, d \in BOOLEAN,
            a \in {[cmd_line |-> FALSE, name |-> None, prefix |-> None],
                   [cmd_line |-> TRUE, name |-> N_a, prefix |-> None],
                   [cmd_line |-> TRUE, name |-> None, prefix |-> P_d_a]}}

\* the host commands run between the toggles of specification SpecToggles
ToggleHookInputs ==
    {[command |-> "install", dry_run |-> FALSE, args |-> a, active |-> P_r] :
        a \in {[cmd_line |-> FALSE, name |-> None, prefix |-> None],
               [cmd_line |-> TRUE, name |-> N_a, prefix |-> None],
               [cmd_line |-> TRUE, name |-> None, prefix |-> P_d_a],
               [cmd_line |-> TRUE, name |-> None, prefix |-> P_ee_b]}}

Idle == [op |-> "idle"]

Procs == 1..NumProcs

\* a toggle invocation that has not started
IdleProc == [pc |-> "idle", token |-> None, validated |-> [kind |-> "None"],
             readAt |-> 0, writeAt |-> 0, kind |-> "", after |-> FALSE]

\* the arguments of the concurrent toggle invocations
ConcTokens == {P_e_a, N_a, P_d_a}

----------------------------------------------------------------------------
(* State machine: one invocation at a time *)

Init ==
    /\ variant \in {"protect", "envlock"}
    /\ root_prefix \in Roots
    /\ envs_dirs \in EnvsDirsChoices
    /\ \E known \in SUBSET KnownUniverse :
        /\ Cardinality(known) <= MaxKnown
        /\ prefixes = list_all_known_prefixes(known, root_prefix)
        /\ markers \in SUBSET {PathOf(x) : x \in known \cup {root_prefix, Unknown}}
    /\ inv = Idle
    /\ hist = <<>>
    /\ proc = [p \in Procs |-> IdleProc]

\* hist after a toggle: the successful toggles run back to back on one location
HistAfter(h, validated, result, files) ==
    IF result.kind # "ok" THEN <<>>
    ELSE LET new == [path |-> validated.env.path, pre |-> files,
                     read |-> validated.env.guarded, post |-> result.env.guarded]
         IN  IF h # <<>> /\ h[Len(h)].path = new.path
             THEN <<h[Len(h)], new>>
             ELSE <<new>>

\* "conda protect TOKEN" / "conda el lock TOKEN": the callback, then the toggle
Toggle(token) ==
    /\ inv.op = "idle"
    /\ LET validated == validate_environment(token, prefixes, envs_dirs, root_prefix, markers)
           result    == toggle_command(validated, markers)
       IN  /\ markers' = result.files
           /\ inv' = [op |-> "toggle", token |-> token, validated |-> validated,
                      result |-> result, pre |-> markers]
    /\ UNCHANGED <<config, hist, proc>>

\* the same invocation, with the history of toggles kept
TrackedToggle(token) ==
    /\ inv.op = "idle"
    /\ LET validated == validate_environment(token, prefixes, envs_dirs, root_prefix, markers)
           result    == toggle_command(validated, markers)
       IN  /\ markers' = result.files
           /\ inv' = [op |-> "toggle", token |-> token, validated |-> validated,
                      result |-> result, pre |-> markers]
           /\ hist' = HistAfter(hist, validated, result, markers)
    /\ UNCHANGED <<config, proc>>

\* "conda protect --list [-p] [-n] [TOKEN]" / "conda el list [-l] [-n]":
\* the callback of the argument of the protect subcommand runs first
List(token, protected, named) ==
    /\ inv.op = "idle"
    /\ variant = "envlock" => token = None
    /\ LET validated == validate_environment(token, prefixes, envs_dirs, root_prefix, markers)
       IN  inv' = [op |-> "list", token |-> token, protected |-> protected, named |-> named,
                   pre |-> markers,
                   result |->
                     IF validated.kind = "NotFound" THEN [kind |-> "NotFound", rows |-> <<>>]
                     ELSE [kind |-> "ok",
                           rows |-> list_environments(protected, named, prefixes,
                                                      envs_dirs, root_prefix, markers)]]
    /\ UNCHANGED <<config, markers, hist, proc>>

\* the host runs a command: the hook is called before the ones it is registered for
Hook(in) ==
    /\ inv.op = "idle"
    /\ variant = "protect" => in.active # None
    /\ inv' = [op |-> "hook", in |-> in, pre |-> markers,
               result |->
                 IF in.command \in RunFor(variant)
                 THEN PreCommand(variant, in, prefixes, envs_dirs, root_prefix, markers)
                 ELSE [kind |-> "NotCalled", n |-> 0, shown |-> <<>>]]
    /\ UNCHANGED <<config, markers, hist, proc>>

\* the invocation's process exits
Exit ==
    /\ inv.op # "idle"
    /\ inv' = Idle
    /\ UNCHANGED <<config, markers, hist, proc>>

Next ==
    \/ \E token \in Tokens : Toggle(token)
    \/ \E token \in {None, N_q} : \E protected, named \in BOOLEAN : List(token, protected, named)
    \/ \E in \in HookInputs : Hook(in)
    \/ Exit

Spec == Init /\ [][Next]_vars

\* toggles with their history, and host commands between them
NextToggles ==
    \/ \E token \in Tokens : TrackedToggle(token)
    \/ \E in \in ToggleHookInputs : Hook(in)
    \/ Exit

SpecToggles == Init /\ [][NextToggles]_vars

----------------------------------------------------------------------------
(* State machine: toggle invocations that run at the same time.  Each is a
   process of its own: the callback reads the marker in one step, the toggle
   writes it in a later one, and nothing locks the marker in between. *)

\* the number of steps taken so far
Clock ==
    LET stamps == {proc[p].readAt : p \in Procs} \cup {proc[p].writeAt : p \in Procs}
    IN  CHOOSE m \in stamps : \A x \in stamps : x <= m

\* the click callback of invocation p: validate_environment reads the marker
ConcValidate(p, token) ==
    /\ proc[p].pc = "idle"
    /\ LET validated == validate_environment(token, prefixes, envs_dirs, root_prefix, markers)
       IN  proc' = [proc EXCEPT ![p] =
                        [pc |-> "validated", token |-> token, validated |-> validated,
                         readAt |-> Clock + 1, writeAt |-> 0, kind |-> "", after |-> FALSE]]
    /\ UNCHANGED <<config, markers, inv, hist>>

\* the body of invocation p: toggle_environment_guard writes the marker
ConcToggle(p) ==
    /\ proc[p].pc = "validated"
    /\ LET result == toggle_command(proc[p].validated, markers)
       IN  /\ markers' = result.files
           /\ proc' = [proc EXCEPT ![p] =
                        [pc |-> "done", token |-> proc[p].token,
                         validated |-> proc[p].validated,
                         readAt |-> proc[p].readAt, writeAt |-> Clock + 1,
                         kind |-> result.kind,
                         after |-> /\ proc[p].validated.kind = "env"
                                   /\ proc[p].validated.env.path \in result.files]]
    /\ UNCHANGED <<config, inv, hist>>

NextConc ==
    \/ \E p \in Procs : \E token \in ConcTokens : ConcValidate(p, token)
    \/ \E p \in Procs : ConcToggle(p)

\* the configurations in which the environment the invocations contend for is known
InitConc == Init /\ InPrefixes(P_e_a, prefixes)

SpecConc == InitConc /\ [][NextConc]_vars

----------------------------------------------------------------------------
(* Vocabulary of the properties *)

\* the known environments: the locations list_all_known_prefixes() returns
KnownLocations == {prefixes[i] : i \in 1..Len(prefixes)}

\* the name -> location map in the current configuration
NameMap == get_name_to_prefix_map(prefixes, envs_dirs, root_prefix)

\* the five mutating host operations
GatedOperations == {"install", "remove", "update", "env_update", "env_remove"}

\* the location the command line of a host command designates: the one its
\* name argument maps to, else its location argument, else the active
\* environment; None when a name maps to nothing or no environment is active
TargetLocation(in) ==
    IF Truthy(in.args.name)
    THEN IF in.args.name \in DictKeys(NameMap)
         THEN PathOf(DictGet(NameMap, in.args.name)) ELSE None
    ELSE IF Truthy(in.args.prefix) THEN PathOf(in.args.prefix)
    ELSE IF in.active = None THEN None
    ELSE PathOf(in.active)

\* loc is the location of a known environment
IsKnown(loc) == \E p \in KnownLocations \cup {root_prefix} : PathOf(p) = loc

\* the hook has run for a gated operation of a host that is not in dry-run mode
GatedRun == inv.op = "hook" /\ inv.in.command \in GatedOperations /\ ~inv.in.dry_run

----------------------------------------------------------------------------
(* C1 *)

\* C1: a gated operation of a host not in dry-run mode whose target (by name,
\* by location or by the active-environment fallback) is a known environment
\* with its flag set ends with the Blocked error.
C1_FlaggedTargetBlocked ==
    GatedRun =>
        \A E \in KnownLocations :
            (PathOf(E) \in inv.pre /\ TargetLocation(inv.in) = PathOf(E))
                => inv.result.kind = "Blocked"

\* a flagged environment reached through its name is blocked for env_remove
C1_Witness ==
    /\ inv.op = "hook" /\ inv.in.command = "env_remove" /\ ~inv.in.dry_run
    /\ inv.in.args.name = N_a
    /\ TargetLocation(inv.in) = P_e_a /\ P_e_a \in inv.pre
    /\ inv.result.kind = "Blocked"

----------------------------------------------------------------------------
(* C2 *)

\* C2 (as claimed): the hook ends in Blocked only if the host is not in
\* dry-run mode and the target is flagged, in either plugin.
C2_BlockedOnlyOutsideDryRun ==
    (inv.op = "hook" /\ inv.result.kind = "Blocked")
        => (~inv.in.dry_run /\ TargetLocation(inv.in) \in inv.pre)

----------------------------------------------------------------------------
(* C3 *)

\* the flags an invocation changed
Changed == (markers \ inv.pre) \cup (inv.pre \ markers)

\* C3: an invocation changes at most one flag; a successful toggle flips the
\* flag of the environment it resolved and returns the negation of the state
\* it read; list and hook invocations change no flag.
C3_FrameEffect ==
    /\ inv.op # "idle" => Cardinality(Changed) <= 1
    /\ (inv.op = "toggle" /\ inv.result.kind = "ok") =>
          LET E == inv.validated.env.path
          IN  /\ Changed = {E}
              /\ (E \in markers) = ~(E \in inv.pre)
              /\ inv.validated.env.guarded = (E \in inv.pre)
              /\ inv.result.env.guarded = ~inv.validated.env.guarded
              /\ inv.result.env.guarded = (E \in markers)
    /\ (inv.op = "toggle" /\ inv.result.kind # "ok") => markers = inv.pre
    /\ inv.op \in {"list", "hook"} => markers = inv.pre

\* a toggle removed the marker of one environment while another stayed flagged
C3_Witness ==
    /\ inv.op = "toggle" /\ inv.result.kind = "ok"
    /\ inv.validated.env.path = P_e_a
    /\ P_e_a \in inv.pre /\ P_e_a \notin markers
    /\ P_d_a \in inv.pre /\ P_d_a \in markers

----------------------------------------------------------------------------
(* C4 *)

\* a host command that designates the location loc by a location argument
ByLocation(loc) ==
    [command |-> "install", dry_run |-> FALSE,
     args |-> [cmd_line |-> TRUE, name |-> None, prefix |-> loc], active |-> root_prefix]

\* a host command that falls back on the active environment loc
ByFallback(loc) ==
    [command |-> "install", dry_run |-> FALSE,
     args |-> [cmd_line |-> FALSE, name |-> None, prefix |-> None], active |-> loc]

\* a host command that designates an environment by the name n
ByName(n) ==
    [command |-> "install", dry_run |-> FALSE,
     args |-> [cmd_line |-> TRUE, name |-> n, prefix |-> None], active |-> root_prefix]

\* the host commands that target the location loc
Targeting(loc) ==
    {ByLocation(loc), ByFallback(loc)}
        \cup {ByName(n) : n \in {k \in DictKeys(NameMap) : PathOf(DictGet(NameMap, k)) = loc}}

\* what the hook answers to the host command in when the markers are files
HookOutcome(in, files) ==
    PreCommand(variant, in, prefixes, envs_dirs, root_prefix, files).kind

\* C4: two toggles of one environment run back to back restore its flag and
\* every marker, the hook answers a command that targets it as it did before
\* them, and a command blocked after the flagging toggle passes after the
\* unflagging one.
C4_DoubleToggleRestores ==
    /\ (inv.op = "toggle" /\ inv.validated.kind = "env") => inv.result.kind = "ok"
    /\ Len(hist) = 2 =>
          LET E == hist[1].path
          IN  /\ markers = hist[1].pre
              /\ hist[2].pre = hist[1].pre \cup {E} \/ hist[2].pre = hist[1].pre \ {E}
              /\ hist[2].pre # hist[1].pre
              /\ hist[2].read = hist[1].post /\ hist[2].post = hist[1].read
              /\ \A in \in Targeting(E) :
                    /\ HookOutcome(in, markers) = HookOutcome(in, hist[1].pre)
                    /\ ~hist[1].read =>
                          /\ HookOutcome(in, hist[2].pre) = "Blocked"
                          /\ HookOutcome(in, markers) = "Pass"

\* an environment was flagged and then unflagged, and the host command the hook
\* answered last targets it and passes
C4_Witness ==
    /\ Len(hist) = 2 /\ hist[1].path = P_d_a /\ ~hist[1].read
    /\ inv.op = "hook" /\ inv.in = ByLocation(P_d_a)
    /\ HookOutcome(inv.in, hist[2].pre) = "Blocked"
    /\ inv.result.kind = "Pass"

----------------------------------------------------------------------------
(* C5 *)

\* the code's test "prefix.startswith(env_dir)" for some search directory
StartsWithSearchDir(p) == \E i \in 1..Len(envs_dirs) : StartsWith(p, envs_dirs[i])

\* C5: a non-empty token that is a known location resolves to that location,
\* one that is a known name resolves to the location the name maps to (the
\* root location for the root name, else a known location that starts with a
\* search directory and ends in the name), each with the marker's current
\* state; any other token ends in NotFound with no flag changed.
C5_Resolve ==
    (inv.op \in {"toggle", "list"} /\ inv.token # None /\ inv.token # <<>>) =>
        IF inv.token \in KnownLocations
        THEN inv.op = "toggle" =>
                /\ inv.validated.kind = "env"
                /\ inv.validated.env.path = PathOf(inv.token)
                /\ inv.validated.env.guarded = (PathOf(inv.token) \in inv.pre)
        ELSE IF inv.token \in DictKeys(NameMap)
        THEN inv.op = "toggle" =>
                /\ inv.validated.kind = "env"
                /\ inv.validated.env.path = PathOf(DictGet(NameMap, inv.token))
                /\ inv.validated.env.guarded = (inv.validated.env.path \in inv.pre)
                /\ IF inv.token = ROOT_ENV_NAME
                   THEN inv.validated.env.path = PathOf(root_prefix)
                   ELSE \E p \in KnownLocations :
                            /\ Basename(p) = inv.token /\ StartsWithSearchDir(p)
                            /\ inv.validated.env.path = PathOf(p)
        ELSE inv.result.kind = "NotFound" /\ markers = inv.pre

\* a known location written with a trailing slash is not an exact known
\* location and not a name: NotFound, with the marker of that location kept
C5_Witness ==
    /\ inv.op = "toggle" /\ inv.token = P_e_a_sl
    /\ P_e_a \in KnownLocations /\ P_e_a \in markers
    /\ inv.result.kind = "NotFound"

----------------------------------------------------------------------------
(* C6 *)

----------------------------------------------------------------------------
(* C7 *)

\* p lies under one of the configured search directories
UnderSearchDir(p) ==
    \E i \in 1..Len(envs_dirs) : StartsWith(p, envs_dirs[i] \o <<"/">>)

\* C7 (as claimed): list mode without filters shows one row per known
\* location and no other row; the root location and the locations under a
\* search directory are shown with their name, the others with the
\* placeholder; the status is empty exactly for the unflagged ones.
C7_OneRowPerLocation ==
    (inv.op = "list" /\ ~inv.protected /\ ~inv.named /\ inv.result.kind = "ok") =>
        LET rows == inv.result.rows
        IN  /\ Len(rows) = Cardinality(KnownLocations)
            /\ \A p \in KnownLocations : \E i \in 1..Len(rows) : rows[i].prefix = PathOf(p)
            /\ \A i \in 1..Len(rows) : \E p \in KnownLocations :
                  /\ rows[i].prefix = PathOf(p)
                  /\ rows[i].name =
                        IF p = root_prefix THEN ROOT_ENV_NAME
                        ELSE IF UnderSearchDir(p) THEN Basename(p)
                        ELSE <<"-">>
                  /\ (rows[i].status = "") = (PathOf(p) \notin inv.pre)

----------------------------------------------------------------------------
(* C8 *)

\* the positions in the iteration of the known locations that start with a
\* search directory and end in the name n
Holders(n) ==
    {i \in 1..Len(prefixes) : Basename(prefixes[i]) = n /\ StartsWithSearchDir(prefixes[i])}

\* the names that two such locations share
SharedNames == {n \in {Basename(p) : p \in KnownLocations} : Cardinality(Holders(n)) >= 2}

First(I) == CHOOSE i \in I : \A j \in I : i <= j

Last(I) == CHOOSE i \in I : \A j \in I : j <= i

\* the toggle and the hook act, for the name n, on the location prefixes[i]
ActsOn(n, i) ==
    /\ inv.op # "idle" => DictGet(NameMap, n) = prefixes[i]
    /\ (inv.op = "toggle" /\ inv.token = n) =>
          /\ inv.result.kind = "ok"
          /\ Changed = {PathOf(prefixes[i])}
    /\ (GatedRun /\ inv.in.args.name = n) =>
          (inv.result.kind = "Blocked" <=> PathOf(prefixes[i]) \in inv.pre)

\* C8 (as claimed): a name two known locations share maps to the one met
\* first, and toggle-by-name and the hook's lookup-by-name act on that one.
C8_FirstMatchWins == \A n \in SharedNames : ActsOn(n, First(Holders(n)))

\* C8 (amended): a name two known locations share, other than the root name,
\* maps to the one met last, and toggle-by-name and the hook's lookup-by-name
\* act on that one.
C8_LastMatchWins ==
    \A n \in SharedNames \ {ROOT_ENV_NAME} : ActsOn(n, Last(Holders(n)))

\* the shared name was toggled: the marker of the location met last changed
C8_Witness ==
    /\ N_a \in SharedNames
    /\ prefixes[First(Holders(N_a))] = P_d_a /\ prefixes[Last(Holders(N_a))] = P_e_a
    /\ inv.op = "toggle" /\ inv.token = N_a
    /\ Changed = {P_e_a}

----------------------------------------------------------------------------
(* C9 *)

\* C9 (as claimed): the list of flagged known environments that match the
\* hook's target has length zero or one.
C9_AtMostOneMatch == inv.op = "hook" => inv.result.n <= 1

----------------------------------------------------------------------------
(* C10 *)

\* invocations p and q toggled the same environment, both read its flag before
\* either wrote the marker, p wrote first, and no third invocation wrote the
\* marker of that environment before q did
Raced(p, q) ==
    /\ p # q
    /\ proc[p].pc = "done" /\ proc[q].pc = "done"
    /\ proc[p].validated.kind = "env" /\ proc[q].validated.kind = "env"
    /\ proc[p].validated.env.path = proc[q].validated.env.path
    /\ proc[p].readAt < proc[p].writeAt /\ proc[q].readAt < proc[p].writeAt
    /\ proc[p].writeAt < proc[q].writeAt
    /\ \A r \in Procs \ {p, q} :
          (proc[r].pc = "done" /\ proc[r].validated.kind = "env"
           /\ proc[r].validated.env.path = proc[p].validated.env.path)
              => proc[r].writeAt > proc[q].writeAt

\* C10 (as claimed): both invocations complete without an error, and the flag
\* is left as the later writer wrote it, the negation of the state read.
C10_BothComplete ==
    \A p, q \in Procs :
        Raced(p, q) =>
            /\ proc[p].kind = "ok" /\ proc[q].kind = "ok"
            /\ proc[q].after = ~proc[q].validated.env.guarded

\* C10 (amended): both read the same state; the flag is left, after the later
\* write, as the negation of that state; when the state read was unflagged
\* both invocations complete without an error, and when it was flagged the
\* first one removes the marker and the later one fails with the I/O error.
C10_LaterWriterFailsOnUnlink ==
    \A p, q \in Procs :
        Raced(p, q) =>
            /\ proc[p].validated.env.guarded = proc[q].validated.env.guarded
            /\ proc[q].after = ~proc[q].validated.env.guarded
            /\ proc[p].kind = "ok"
            /\ ~proc[q].validated.env.guarded => proc[q].kind = "ok"
            /\ proc[q].validated.env.guarded => proc[q].kind = "IOFailure"

\* two invocations read the flagged state of one environment, the first removed
\* the marker and the second failed
C10_Witness ==
    /\ Raced(1, 2)
    /\ proc[1].token = P_e_a /\ proc[2].token = N_a
    /\ proc[1].validated.env.guarded /\ proc[2].validated.env.guarded
    /\ proc[1].kind = "ok" /\ proc[2].kind = "IOFailure"
    /\ P_e_a \notin markers

----------------------------------------------------------------------------
(* C11 *)

\* C11 (as claimed): an invocation of the subcommand without the list flag
\* either resolves its token and toggles that environment, or ends with
\* NotFound and no flag changed; the toggle is never reached with an absent
\* environment, also when no token is given.
C11_ToggleOnlyOnResolved ==
    inv.op = "toggle" =>
        \/ /\ inv.validated.kind = "env"
           /\ inv.result.kind = "ok"
           /\ Changed = {inv.validated.env.path}
        \/ /\ inv.result.kind = "NotFound"
           /\ markers = inv.pre
====
